---- MODULE Spec2Model ----
(***************************************************************************)
(* Model of backend/app.py of asiaspanel: the /api/tts handler (the        *)
(* provider-fallback pipeline) and its delivery through _return_uploaded,  *)
(* the audio read path (audio_proxy), the voice registry handlers          *)
(* (upload_voice_sample, clone_voice, delete_cloned_voice,                 *)
(* get_cloned_voices, save_config, get_config), translate, and the session *)
(* tokens (login, logout, verify_auth).                                    *)
(*                                                                         *)
(* Handlers are async functions that do not await between their reads and  *)
(* writes of shared state, so one handler runs to completion before the    *)
(* next starts; the model keeps one tts request in flight and lets the     *)
(* other operations act between requests.  The steps of one tts request    *)
(* are separate actions so that the order of the stages is observable.     *)
(*                                                                         *)
(* Each group of handlers has a specification of its own: Spec and         *)
(* PairSpec (tts and the config writer), ReadSpec (tts and audio_proxy),   *)
(* VoiceSpec (the registry handlers), TranslateSpec and AuthSpec.          *)
(*                                                                         *)
(* Writes to the storage directory are taken to succeed (a full disk is    *)
(* not modelled); every outcome of a provider call is an input.  Outside   *)
(* AuthSpec the requests modelled are those that passed the verify_auth    *)
(* dependency.  uuid4 and secrets.token_urlsafe are modelled by counters:  *)
(* every draw is fresh.                                                    *)
(***************************************************************************)
EXTENDS Naturals, Sequences, FiniteSets, TLC

\* ------------------------------------------------------------------ bounds
\* number of tts requests one behaviour accepts or rejects
MaxRequests == 2
\* longest text of a translation request, in characters
MaxLen == 3
\* number of successful logins in one behaviour
MaxLogins == 2

\* ------------------------------------------------------------------ inputs
Texts == {"", "hello"}
VoiceSelectors == {"alloy", "anna_1"}
Formats == {"wav"}
BackendUrls == {"", "https://panel"}

\* what requests.post to the cloning provider can do (all failures are
\* requests.exceptions.RequestException: Timeout, ConnectionError, HTTPError)
CloneOutcomes == {"ok", "Timeout", "HTTPError"}
\* what the primary client can do: return bytes, return a stream whose read()
\* gives bytes, raise, have no audio.speech API, return a stream whose read()
\* raises or gives something that is not bytes
PrimaryOutcomes == {"bytes", "stream", "raise", "no_api", "read_raises", "read_not_bytes"}
\* gTTS: saved, module missing, constructor raises, save raises after it
\* opened (and so created) the output file
OfflineOutcomes == {"ok", "ImportError", "ValueError", "gTTSError"}
\* create_container: created, ResourceExistsError, any other error
ContainerOutcomes == {"created", "exists", "error"}
UploadOutcomes == {"ok", "error"}

\* cloned_voices documents that /api/config can store
GoodEntry == [elevenlabs_id |-> "el_1", name |-> "Anna", created_at |-> "t0"]
BadEntry == [name |-> "Anna"]
ConfigPayloads ==
    { [voices |-> <<"default">>],
      [voices |-> <<"default">>, cloned_voices |-> [v \in {"anna_1"} |-> GoodEntry]],
      [voices |-> <<"default">>, cloned_voices |-> [v \in {"anna_1"} |-> BadEntry]] }

VARIABLES
    ELEVENLABS_API_KEY, \* TRUE iff the variable is set (app.py:71)
    OPENAI_API_KEY,     \* TRUE iff the key is set and the module imported (app.py:66)
    blob_service,       \* TRUE iff _blob_service is not None (app.py:85-92)
    BACKEND_URL,        \* os.getenv('BACKEND_URL', '') (app.py:252)
    storage,            \* STORAGE_DIR: file name -> content
    config_file,        \* storage/config.json: <<>> when absent, else <<document>>
    azure_blobs,        \* the remote container: blob name -> content
    azure_container,    \* TRUE iff the remote container exists
    next_uuid,          \* source of fresh uuid4 values
    nreq,               \* requests received so far
    pc,                 \* position of the request in flight
    req,                \* the TTSRequest in flight
    audio_filename,     \* tts local of that name
    elevenlabs_id,      \* tts local of that name; "" before it is read
    openai_error,       \* tts local of that name; <<>> is None
    produced_by,        \* the stage whose audio is being delivered
    resp,               \* what the handler returned or raised
    trace,              \* the stages this request went through, in order
    written,            \* the storage files this request created
    prev,               \* summary of the previous request (pair specification only)
    delivery,           \* what create_container and upload_blob did for this request
    assets,             \* every delivered audio file: name -> the bytes its stage stored
    op,                 \* the last call of a handler other than tts since the last
                        \* tts request arrived, with its inputs
    out,                \* what that handler returned or raised
    samples,            \* VOICES_DIR: <<voice id, extension>> -> content
    MASTER_PASSWORD,    \* the password read at start (app.py:75-83); "" disables authentication
    VALID_TOKENS,       \* the in-memory set of session tokens (app.py:76)
    next_token,         \* source of fresh secrets.token_urlsafe values
    issued_tokens,      \* every token a successful login returned
    logged_out,         \* the issued tokens a logout has carried since
    lifecycle           \* voice id -> "cloned" or "deleted": the last of its clone and
                        \* delete calls that completed (registry specifications only)

vars == << ELEVENLABS_API_KEY, OPENAI_API_KEY, blob_service, BACKEND_URL, storage,
           config_file, azure_blobs, azure_container, next_uuid, nreq, pc, req,
           audio_filename, elevenlabs_id, openai_error, produced_by, resp, trace, written, prev,
           delivery, assets, op, out, samples, MASTER_PASSWORD, VALID_TOKENS, next_token,
           issued_tokens, logged_out, lifecycle >>

\* the state of authentication
auth == << MASTER_PASSWORD, VALID_TOKENS, next_token, issued_tokens, logged_out >>

\* the state of the handlers other than tts
rest == << op, out, samples, auth, lifecycle >>

env == << ELEVENLABS_API_KEY, OPENAI_API_KEY, blob_service, BACKEND_URL >>
remote == << azure_blobs, azure_container >>

\* ------------------------------------------------------------------ helpers
NoResponse == [status |-> 0, body |-> <<>>]
NoRequest == [text |-> "", voice |-> "", format |-> ""]
NoName == <<"", 0, "">>
NoDelivery == [created |-> "none", uploaded |-> "none"]
NoCall == [handler |-> ""]
EmptyFiles == [n \in {} |-> <<>>]

HTTPException(code, detail) == [status |-> code, body |-> [detail |-> detail]]
Returned(body) == [status |-> 200, body |-> body]

\* d[k] = v for a response dict d
SetKey(d, k, v) == [x \in DOMAIN d \cup {k} |-> IF x = k THEN v ELSE d[x]]
\* path.write_bytes(data) in a directory
WriteFile(dir, name, data) == [n \in DOMAIN dir \cup {name} |-> IF n = name THEN data ELSE dir[n]]

Event(stage, result, kind) == [stage |-> stage, result |-> result, kind |-> kind, diag |-> openai_error]

Init ==
    /\ ELEVENLABS_API_KEY \in BOOLEAN
    /\ OPENAI_API_KEY \in BOOLEAN
    /\ blob_service \in BOOLEAN
    /\ BACKEND_URL \in BackendUrls
    /\ storage = EmptyFiles
    /\ config_file = <<>>
    /\ azure_blobs = EmptyFiles
    /\ azure_container \in BOOLEAN
    /\ next_uuid = 1
    /\ nreq = 0
    /\ pc = "idle"
    /\ req = NoRequest
    /\ audio_filename = NoName
    /\ elevenlabs_id = ""
    /\ openai_error = <<>>
    /\ produced_by = ""
    /\ resp = NoResponse
    /\ trace = <<>>
    /\ written = {}
    /\ prev = <<>>
    /\ delivery = NoDelivery
    /\ assets = EmptyFiles
    /\ op = NoCall
    /\ out = NoResponse
    /\ samples = EmptyFiles
    /\ MASTER_PASSWORD = ""
    /\ VALID_TOKENS = {}
    /\ next_token = 1
    /\ issued_tokens = {}
    /\ logged_out = {}
    /\ lifecycle = <<>>

Idle == pc \in {"idle", "done"}

\* POST /api/config: the document is replaced by the payload
save_config(payload) ==
    /\ Idle
    /\ config_file' = <<payload>>
    /\ op' = [handler |-> "save_config", payload |-> payload]
    /\ out' = Returned([ok |-> TRUE])
    /\ UNCHANGED << env, storage, remote, next_uuid, nreq, pc, req, audio_filename,
                    elevenlabs_id, openai_error, produced_by, resp, trace, written, prev, delivery,
                    assets, samples, auth >>

\* TtsEntry without the test of line 238: an empty text enters the pipeline
TtsEntryNoValidation(text, voice, format) ==
    /\ Idle
    /\ nreq < MaxRequests
    /\ nreq' = nreq + 1
    /\ req' = [text |-> text, voice |-> voice, format |-> format]
    /\ trace' = <<>>
    /\ written' = {}
    /\ openai_error' = <<>>
    /\ produced_by' = ""
    /\ elevenlabs_id' = ""
    /\ resp' = NoResponse
    /\ pc' = "classify"
    /\ audio_filename' = <<"tts_", next_uuid, ".mp3">>
    /\ next_uuid' = next_uuid + 1
    /\ UNCHANGED << env, storage, config_file, remote >>

\* TtsEntry with a file name that is not drawn afresh: one name for all requests
TtsEntryOneName(text, voice, format) ==
    /\ Idle
    /\ nreq < MaxRequests
    /\ nreq' = nreq + 1
    /\ req' = [text |-> text, voice |-> voice, format |-> format]
    /\ trace' = <<>>
    /\ written' = {}
    /\ openai_error' = <<>>
    /\ produced_by' = ""
    /\ elevenlabs_id' = ""
    /\ IF text = ""
       THEN /\ resp' = HTTPException(400, "text is required")
            /\ pc' = "done"
            /\ audio_filename' = NoName
            /\ UNCHANGED next_uuid
       ELSE /\ resp' = NoResponse
            /\ pc' = "classify"
            /\ audio_filename' = <<"tts_", 1, ".mp3">>
            /\ next_uuid' = next_uuid + 1
    /\ UNCHANGED << env, storage, config_file, remote >>

\* tts, lines 236-245: validation and the choice of audio_filename
TtsEntry(text, voice, format) ==
    /\ Idle
    /\ nreq < MaxRequests
    /\ nreq' = nreq + 1
    /\ req' = [text |-> text, voice |-> voice, format |-> format]
    /\ trace' = <<>>
    /\ written' = {}
    /\ openai_error' = <<>>
    /\ produced_by' = ""
    /\ elevenlabs_id' = ""
    /\ IF text = ""
       THEN /\ resp' = HTTPException(400, "text is required")
            /\ pc' = "done"
            /\ audio_filename' = NoName
            /\ UNCHANGED next_uuid
       ELSE /\ resp' = NoResponse
            /\ pc' = "classify"
            /\ audio_filename' = <<"tts_", next_uuid, ".mp3">>
            /\ next_uuid' = next_uuid + 1
    /\ UNCHANGED << env, storage, config_file, remote >>

TtsReceive(text, voice, format) ==
    /\ TtsEntry(text, voice, format)
    /\ delivery' = NoDelivery
    /\ op' = NoCall
    /\ out' = NoResponse
    /\ UNCHANGED << prev, assets, samples, auth, lifecycle >>

\* config.get("cloned_voices", {}) of the document on disk
ClonedVoices(doc) == IF "cloned_voices" \in DOMAIN doc THEN doc.cloned_voices ELSE <<>>

\* TtsClassify without the credential test of line 289: the cloning provider
\* is called whether or not its key is set
TtsClassifyNoKeyTest ==
    /\ pc = "classify"
    /\ IF config_file # <<>> /\ req.voice \in DOMAIN ClonedVoices(config_file[1])
       THEN LET entry == ClonedVoices(config_file[1])[req.voice] IN
            IF "elevenlabs_id" \notin DOMAIN entry
            THEN /\ resp' = HTTPException(500, "Internal Server Error")
                 /\ pc' = "done"
                 /\ UNCHANGED elevenlabs_id
            ELSE /\ elevenlabs_id' = entry.elevenlabs_id
                 /\ pc' = "clone"
                 /\ UNCHANGED resp
       ELSE /\ pc' = "primary"
            /\ UNCHANGED << elevenlabs_id, resp >>
    /\ UNCHANGED << env, storage, config_file, remote, next_uuid, nreq, req, openai_error,
                    trace, audio_filename, produced_by, written, prev, delivery, assets, rest >>

\* tts, lines 278-289 and 319-321: is the voice a cloned one, and is the
\* cloning credential there. An entry without "elevenlabs_id" raises KeyError,
\* which no handler catches: the framework answers 500.
TtsClassify ==
    /\ pc = "classify"
    /\ IF config_file # <<>> /\ req.voice \in DOMAIN ClonedVoices(config_file[1])
       THEN LET entry == ClonedVoices(config_file[1])[req.voice] IN
            IF "elevenlabs_id" \notin DOMAIN entry
            THEN /\ resp' = HTTPException(500, "Internal Server Error")
                 /\ pc' = "done"
                 /\ UNCHANGED << elevenlabs_id, openai_error, trace >>
            ELSE /\ elevenlabs_id' = entry.elevenlabs_id
                 /\ IF ELEVENLABS_API_KEY
                    THEN /\ pc' = "clone"
                         /\ UNCHANGED << openai_error, trace >>
                    ELSE /\ openai_error' = <<"ElevenLabs API key not configured">>
                         /\ trace' = Append(trace, Event("clone", "skipped", "credential"))
                         /\ pc' = "primary"
                 /\ UNCHANGED resp
       ELSE /\ pc' = "primary"
            /\ UNCHANGED << elevenlabs_id, openai_error, trace, resp >>
    /\ UNCHANGED << env, storage, config_file, remote, next_uuid, nreq, req,
                    audio_filename, produced_by, written, prev, delivery, assets, rest >>

\* TtsCloneCall without the return of line 313: a successful cloning call
\* falls through to the primary provider
TtsCloneCallNoReturn(outcome) ==
    /\ pc = "clone"
    /\ IF outcome = "ok"
       THEN /\ storage' = WriteFile(storage, audio_filename, <<"elevenlabs", elevenlabs_id, req.text>>)
            /\ written' = written \cup {audio_filename}
            /\ trace' = Append(trace, Event("clone", "ok", "none"))
            /\ produced_by' = "clone"
            /\ pc' = "primary"
            /\ UNCHANGED openai_error
       ELSE /\ openai_error' = <<"ElevenLabs: ", outcome>>
            /\ trace' = Append(trace, Event("clone", "failed", "transport"))
            /\ pc' = "primary"
            /\ UNCHANGED << storage, written, produced_by >>
    /\ UNCHANGED << env, config_file, remote, next_uuid, nreq, req, audio_filename,
                    elevenlabs_id, resp, prev, delivery, assets, rest >>

\* tts, lines 290-317: the call to the cloning provider
TtsCloneCall(outcome) ==
    /\ pc = "clone"
    /\ IF outcome = "ok"
       THEN /\ storage' = WriteFile(storage, audio_filename, <<"elevenlabs", elevenlabs_id, req.text>>)
            /\ written' = written \cup {audio_filename}
            /\ trace' = Append(trace, Event("clone", "ok", "none"))
            /\ produced_by' = "clone"
            /\ pc' = "deliver"
            /\ UNCHANGED openai_error
       ELSE /\ openai_error' = <<"ElevenLabs: ", outcome>>
            /\ trace' = Append(trace, Event("clone", "failed", "transport"))
            /\ pc' = "primary"
            /\ UNCHANGED << storage, written, produced_by >>
    /\ UNCHANGED << env, config_file, remote, next_uuid, nreq, req, audio_filename,
                    elevenlabs_id, resp, prev, delivery, assets, rest >>

\* tts, lines 362-363: the primary provider is not configured
TtsPrimarySkip ==
    /\ pc = "primary"
    /\ ~OPENAI_API_KEY
    /\ trace' = Append(trace, Event("primary", "skipped", "credential"))
    /\ pc' = "offline"
    /\ UNCHANGED << env, storage, config_file, remote, next_uuid, nreq, req, audio_filename,
                    elevenlabs_id, openai_error, produced_by, resp, written, prev, delivery, assets, rest >>

\* how the code treats each outcome of the primary client
PrimaryResult(outcome) ==
    CASE outcome \in {"bytes", "stream"} -> "ok"
      [] outcome = "no_api" -> "skipped"
      [] OTHER -> "failed"
PrimaryKind(outcome) ==
    CASE outcome \in {"bytes", "stream"} -> "none"
      [] outcome = "no_api" -> "no_api"
      [] outcome = "raise" -> "transport"
      [] OTHER -> "malformed"

\* req.voice or 'alloy'
VoiceOrAlloy(voice) == IF voice = "" THEN "alloy" ELSE voice

\* tts, lines 324-361: the call to the primary provider. The except clause of
\* line 338 and the one of line 356 set no diagnostic; the one of line 359 is
\* reached only when a write to storage raises.
TtsPrimaryCall(outcome) ==
    /\ pc = "primary"
    /\ OPENAI_API_KEY
    /\ trace' = Append(trace, Event("primary", PrimaryResult(outcome), PrimaryKind(outcome)))
    /\ IF PrimaryResult(outcome) = "ok"
       THEN /\ storage' = WriteFile(storage, audio_filename, <<"openai", VoiceOrAlloy(req.voice), req.text>>)
            /\ written' = written \cup {audio_filename}
            /\ produced_by' = "primary"
            /\ pc' = "deliver"
       ELSE /\ pc' = "offline"
            /\ UNCHANGED << storage, written, produced_by >>
    /\ UNCHANGED << env, config_file, remote, next_uuid, nreq, req, audio_filename,
                    elevenlabs_id, openai_error, resp, prev, delivery, assets, rest >>

\* the text placeholder of lines 380-382
PlaceholderText(r) == <<"TTS fallback placeholder for voice=", r.voice, ", format=", r.format, "\n\n", r.text>>

\* PlaceholderResponse as an error response: the gTTS failure is raised as 500
PlaceholderResponseRaises(name, e) == HTTPException(500, "TTS failed")

\* the response of lines 383-387 for the placeholder called name, after gTTS raised e
PlaceholderResponse(name, e) ==
    LET r == [url |-> <<"", "/storage/", name>>, mock |-> TRUE, error |-> <<e>>] IN
    Returned(IF openai_error # <<>> THEN SetKey(r, "openai_error", openai_error) ELSE r)

\* tts, lines 365-387: gTTS, and the placeholder of its except clause. gTTS.save
\* opens the output file before it fetches the audio, so a save that raises
\* leaves the file it created; nothing in the except clause removes it.
TtsOffline(outcome) ==
    /\ pc = "offline"
    /\ IF outcome = "ok"
       THEN /\ storage' = WriteFile(storage, audio_filename, <<"gtts", "en", req.text>>)
            /\ written' = written \cup {audio_filename}
            /\ trace' = Append(trace, Event("offline", "ok", "none"))
            /\ produced_by' = "offline"
            /\ pc' = "deliver"
            /\ UNCHANGED << next_uuid, resp >>
       ELSE LET placeholder_name == <<"tts_", next_uuid, ".txt">>
                left == IF outcome = "gTTSError"
                        THEN WriteFile(storage, audio_filename, <<"gtts", "en", "">>)
                        ELSE storage
            IN  /\ storage' = WriteFile(left, placeholder_name, PlaceholderText(req))
                /\ written' = written \cup {placeholder_name} \cup
                                 (IF outcome = "gTTSError" THEN {audio_filename} ELSE {})
                /\ next_uuid' = next_uuid + 1
                /\ trace' = trace \o << Event("offline", "failed", outcome),
                                        Event("placeholder", "ok", "none") >>
                /\ resp' = PlaceholderResponse(placeholder_name, outcome)
                /\ pc' = "done"
                /\ UNCHANGED produced_by
    /\ UNCHANGED << env, config_file, remote, nreq, req, audio_filename, elevenlabs_id,
                    openai_error, prev, delivery, assets, rest >>

\* blob_client.url of a blob in the container AZURE_TTS_CONTAINER
BlobUrl(name) == <<"https://account.blob.core.windows.net", "/tts-audio/", name>>

\* ReturnUploaded handing the client the raw blob URL after an upload
ReturnUploadedRawUrl(name, uploaded) ==
    CASE uploaded = "ok" ->
           [url |-> BlobUrl(name), mock |-> FALSE,
            storage |-> "azure", blob_url |-> BlobUrl(name)]
      [] uploaded = "error" ->
           [url |-> <<BACKEND_URL, "/storage/", name>>, mock |-> FALSE,
            error |-> <<"upload failed">>]
      [] OTHER ->
           [url |-> <<BACKEND_URL, "/storage/", name>>, mock |-> FALSE]

\* ReturnUploaded without the failure detail on the local fallback
ReturnUploadedNoDetail(name, uploaded) ==
    CASE uploaded = "ok" ->
           [url |-> <<BACKEND_URL, "/api/audio/", name>>, mock |-> FALSE,
            storage |-> "azure", blob_url |-> BlobUrl(name)]
      [] OTHER ->
           [url |-> <<BACKEND_URL, "/storage/", name>>, mock |-> FALSE]

\* _return_uploaded, lines 267-274: the dict it returns; uploaded is "ok" after a
\* successful upload, "error" after a failed one, "none" without a blob service
ReturnUploaded(name, uploaded) ==
    CASE uploaded = "ok" ->
           [url |-> <<BACKEND_URL, "/api/audio/", name>>, mock |-> FALSE,
            storage |-> "azure", blob_url |-> BlobUrl(name)]
      [] uploaded = "error" ->
           [url |-> <<BACKEND_URL, "/storage/", name>>, mock |-> FALSE,
            error |-> <<"upload failed">>]
      [] OTHER ->
           [url |-> <<BACKEND_URL, "/storage/", name>>, mock |-> FALSE]

\* tts, lines 313, 348, 355 and 372-376: what the handler returns with the
\* result of _return_uploaded; only the gTTS branch adds openai_error
TtsResult(result) ==
    Returned(IF produced_by = "offline" /\ openai_error # <<>>
             THEN SetKey(result, "openai_error", openai_error)
             ELSE result)

\* _return_uploaded without a blob service (lines 273-274), and the return
TtsDeliverLocal ==
    /\ pc = "deliver"
    /\ ~blob_service
    /\ resp' = TtsResult(ReturnUploaded(audio_filename, "none"))
    /\ pc' = "done"
    /\ delivery' = NoDelivery
    /\ assets' = WriteFile(assets, audio_filename, storage[audio_filename])
    /\ UNCHANGED << env, storage, config_file, remote, next_uuid, nreq, req, audio_filename,
                    elevenlabs_id, openai_error, produced_by, trace, written, prev, rest >>

\* TtsDeliverRemote without the inner try of lines 258-263: an error of
\* create_container reaches the outer except clause and ends the attempt
TtsDeliverRemoteCreateRaises(created, uploaded) ==
    /\ pc = "deliver"
    /\ blob_service
    /\ created = "created" => ~azure_container
    /\ created = "exists" => azure_container
    /\ azure_container' = (azure_container \/ created = "created")
    /\ uploaded = "ok" => azure_container'
    /\ azure_blobs' = IF uploaded = "ok" /\ created = "created"
                      THEN WriteFile(azure_blobs, audio_filename, storage[audio_filename])
                      ELSE azure_blobs
    /\ resp' = TtsResult(ReturnUploaded(audio_filename,
                            IF created = "created" THEN uploaded ELSE "error"))
    /\ pc' = "done"
    /\ delivery' = [created |-> created, uploaded |-> uploaded]
    /\ assets' = WriteFile(assets, audio_filename, storage[audio_filename])
    /\ UNCHANGED << env, storage, config_file, next_uuid, nreq, req, audio_filename,
                    elevenlabs_id, openai_error, produced_by, trace, written, prev, rest >>

\* _return_uploaded with a blob service (lines 254-272), and the return.
\* create_container may create the container, find it there or fail otherwise;
\* none of these ends the attempt. The upload needs the container.
TtsDeliverRemote(created, uploaded) ==
    /\ pc = "deliver"
    /\ blob_service
    /\ created = "created" => ~azure_container
    /\ created = "exists" => azure_container
    /\ azure_container' = (azure_container \/ created = "created")
    /\ uploaded = "ok" => azure_container'
    /\ azure_blobs' = IF uploaded = "ok"
                      THEN WriteFile(azure_blobs, audio_filename, storage[audio_filename])
                      ELSE azure_blobs
    /\ resp' = TtsResult(ReturnUploaded(audio_filename, uploaded))
    /\ pc' = "done"
    /\ delivery' = [created |-> created, uploaded |-> uploaded]
    /\ assets' = WriteFile(assets, audio_filename, storage[audio_filename])
    /\ UNCHANGED << env, storage, config_file, next_uuid, nreq, req, audio_filename,
                    elevenlabs_id, openai_error, produced_by, trace, written, prev, rest >>

\* what is known of a finished request: its inputs, the stages it went
\* through with their results, and the diagnostics its response carried
Summary ==
    [req |-> req,
     events |-> [i \in 1..Len(trace) |-> [stage |-> trace[i].stage, result |-> trace[i].result,
                                          kind |-> trace[i].kind]],
     keys |-> DOMAIN resp.body,
     diag |-> [k \in DOMAIN resp.body \cap {"error", "openai_error"} |-> resp.body[k]]]

\* TtsReceive, remembering the request that finished before this one
TtsReceiveNext(text, voice, format) ==
    /\ TtsEntry(text, voice, format)
    /\ prev' = IF pc = "done" THEN <<Summary>> ELSE prev
    /\ delivery' = NoDelivery
    /\ op' = NoCall
    /\ out' = NoResponse
    /\ UNCHANGED << assets, samples, auth, lifecycle >>

Next ==
    \/ \E p \in ConfigPayloads : save_config(p) /\ UNCHANGED lifecycle
    \/ \E t \in Texts, v \in VoiceSelectors, f \in Formats : TtsReceive(t, v, f)
    \/ TtsClassify
    \/ \E o \in CloneOutcomes : TtsCloneCall(o)
    \/ TtsPrimarySkip
    \/ \E o \in PrimaryOutcomes : TtsPrimaryCall(o)
    \/ \E o \in OfflineOutcomes : TtsOffline(o)
    \/ TtsDeliverLocal
    \/ \E c \in ContainerOutcomes, u \in UploadOutcomes : TtsDeliverRemote(c, u)

Spec == Init /\ [][Next]_vars

\* the same program, with the summary of the previous request kept
NextPair ==
    \/ \E p \in ConfigPayloads : save_config(p) /\ UNCHANGED lifecycle
    \/ \E t \in Texts, v \in VoiceSelectors, f \in Formats : TtsReceiveNext(t, v, f)
    \/ TtsClassify
    \/ \E o \in CloneOutcomes : TtsCloneCall(o)
    \/ TtsPrimarySkip
    \/ \E o \in PrimaryOutcomes : TtsPrimaryCall(o)
    \/ \E o \in OfflineOutcomes : TtsOffline(o)
    \/ TtsDeliverLocal
    \/ \E c \in ContainerOutcomes, u \in UploadOutcomes : TtsDeliverRemote(c, u)

PairSpec == Init /\ [][NextPair]_vars

\* ------------------------------------------------------------------ audio_proxy
\* a blob that an earlier deployment left in the container; its local copy
\* went with that deployment's storage directory
OldName == <<"tts_", 0, ".mp3">>
OldBytes == <<"gtts", "en", "old">>
\* a name nothing was ever stored under
MissingName == <<"tts_", 0, ".wav">>

\* blob_client.exists(): an answer or an error; download_blob().readall();
\* a call the handler does not reach is recorded as "none"
CheckOutcomes == {"answer", "error"}
DownloadOutcomes == {"ok", "error"}

\* audio_proxy and serve_audio: the content type by the extension of the name
MediaType(name) ==
    CASE name[3] = ".wav" -> "audio/wav"
      [] name[3] = ".ogg" -> "audio/ogg"
      [] name[3] = ".webm" -> "audio/webm"
      [] OTHER -> "audio/mpeg"

\* the names a client may ask for
RequestedNames == DOMAIN storage \cup DOMAIN azure_blobs \cup {OldName, MissingName}

\* audio_proxy, lines 434-456: the local file, or 404
LocalAnswer(name) ==
    IF name \in DOMAIN storage
    THEN Returned([data |-> storage[name], media_type |-> MediaType(name), source |-> "local"])
    ELSE HTTPException(404, "Audio not found")

\* audio_proxy with the remote error raised to the client instead of the
\* fall-through of lines 430-432
ProxyAnswerNoFallback(name, check, download) ==
    IF blob_service /\ (check = "error" \/ (name \in DOMAIN azure_blobs /\ download = "error"))
    THEN HTTPException(404, "Audio not found")
    ELSE IF blob_service /\ name \in DOMAIN azure_blobs
         THEN Returned([data |-> azure_blobs[name], media_type |-> MediaType(name), source |-> "azure"])
         ELSE LocalAnswer(name)

\* audio_proxy with the two lookups in the other order: the local file first
ProxyAnswerLocalFirst(name, check, download) ==
    IF name \in DOMAIN storage
    THEN LocalAnswer(name)
    ELSE IF blob_service /\ check = "answer" /\ name \in DOMAIN azure_blobs /\ download = "ok"
         THEN Returned([data |-> azure_blobs[name], media_type |-> MediaType(name), source |-> "azure"])
         ELSE HTTPException(404, "Audio not found")

\* audio_proxy, lines 396-456: the blob when the service is configured, the
\* existence check answers and finds it and the download succeeds; the local
\* file otherwise
ProxyAnswer(name, check, download) ==
    IF blob_service /\ check = "answer" /\ name \in DOMAIN azure_blobs /\ download = "ok"
    THEN Returned([data |-> azure_blobs[name], media_type |-> MediaType(name), source |-> "azure"])
    ELSE LocalAnswer(name)

\* GET /api/audio/{name}
audio_proxy(name, check, download) ==
    /\ Idle
    /\ op' = [handler |-> "audio_proxy", name |-> name,
              check |-> IF blob_service THEN check ELSE "none",
              download |-> IF blob_service /\ check = "answer" /\ name \in DOMAIN azure_blobs
                           THEN download ELSE "none"]
    /\ out' = ProxyAnswer(name, check, download)
    /\ UNCHANGED << env, storage, config_file, remote, next_uuid, nreq, pc, req, audio_filename,
                    elevenlabs_id, openai_error, produced_by, resp, trace, written, prev,
                    delivery, assets, samples, auth, lifecycle >>

\* the state after construction when an earlier deployment used the container;
\* BACKEND_URL, which audio_proxy does not read, is left unset
InitRead ==
    /\ ELEVENLABS_API_KEY \in BOOLEAN
    /\ OPENAI_API_KEY \in BOOLEAN
    /\ blob_service \in BOOLEAN
    /\ BACKEND_URL = ""
    /\ storage = EmptyFiles
    /\ config_file = <<>>
    /\ azure_container \in BOOLEAN
    /\ azure_blobs \in {EmptyFiles} \cup
                       (IF azure_container THEN {WriteFile(EmptyFiles, OldName, OldBytes)} ELSE {})
    /\ next_uuid = 1
    /\ nreq = 0
    /\ pc = "idle"
    /\ req = NoRequest
    /\ audio_filename = NoName
    /\ elevenlabs_id = ""
    /\ openai_error = <<>>
    /\ produced_by = ""
    /\ resp = NoResponse
    /\ trace = <<>>
    /\ written = {}
    /\ prev = <<>>
    /\ delivery = NoDelivery
    /\ assets = EmptyFiles
    /\ op = NoCall
    /\ out = NoResponse
    /\ samples = EmptyFiles
    /\ MASTER_PASSWORD = ""
    /\ VALID_TOKENS = {}
    /\ next_token = 1
    /\ issued_tokens = {}
    /\ logged_out = {}
    /\ lifecycle = <<>>

NextRead ==
    \/ \E p \in ConfigPayloads : save_config(p) /\ UNCHANGED lifecycle
    \/ \E t \in Texts, v \in VoiceSelectors, f \in Formats : TtsReceive(t, v, f)
    \/ TtsClassify
    \/ \E o \in CloneOutcomes : TtsCloneCall(o)
    \/ TtsPrimarySkip
    \/ \E o \in PrimaryOutcomes : TtsPrimaryCall(o)
    \/ \E o \in OfflineOutcomes : TtsOffline(o)
    \/ TtsDeliverLocal
    \/ \E c \in ContainerOutcomes, u \in UploadOutcomes : TtsDeliverRemote(c, u)
    \/ \E n \in RequestedNames, c \in CheckOutcomes, d \in DownloadOutcomes : audio_proxy(n, c, d)

ReadSpec == InitRead /\ [][NextRead]_vars

\* ------------------------------------------------------------------ voice management
\* the name parameter of an upload; "" makes the handler take the stem of
\* the uploaded file's name, which is "bob" (bob.webm) here
UploadNames == {"", "anna", "bob"}
UploadFileStem == "bob"
ContentTypes == {"audio/webm", "audio/wav"}
SampleContents == {"rec_a", "rec_b"}

\* f"{name.strip().replace(' ', '_')}_{int(time.time())}" at clock second 1
VoiceId(name) ==
    CASE name = "anna" -> "anna_1"
      [] name = "bob" -> "bob_1"

\* the voice ids of the clone and delete calls
VoiceIds == {"anna_1", "bob_1"}
\* an order of the voice ids, for the lists built from the registry (the
\* insertion order of the document is not modelled)
VoiceIdOrder == <<"anna_1", "bob_1">>
\* the name parameter of clone_voice
CloneNames == {"", "Bob"}
\* the ids the provider issues
ProviderIds == {"el_2", "el_3"}

\* the extension chosen from the content type (lines 471-478)
ExtOf(content_type) == IF content_type = "audio/wav" THEN ".wav" ELSE ".webm"

\* the order in which clone_voice and delete_cloned_voice look for a sample
SampleExts == <<".webm", ".wav", ".mp3", ".ogg">>
FoundExts(voice_id) == SelectSeq(SampleExts, LAMBDA e : <<voice_id, e>> \in DOMAIN samples)

\* the registry of the document on disk; empty without a document
Registry == IF config_file = <<>> THEN <<>> ELSE ClonedVoices(config_file[1])
\* a del that leaves the key in place
DelKeyKeeps(d, k) == d
\* del d[k]
DelKey(d, k) == [x \in DOMAIN d \ {k} |-> d[x]]

\* what the handler could see before it ran
Before == [config |-> config_file, samples |-> samples]

\* the variables the voice handlers leave alone
tts_state == << env, storage, remote, next_uuid, nreq, pc, req, audio_filename, elevenlabs_id,
                openai_error, produced_by, resp, trace, written, prev, delivery, assets >>

\* POST /api/voice-sample
upload_voice_sample(name, content_type, content) ==
    LET n == IF name = "" THEN UploadFileStem ELSE name
        voice_id == VoiceId(n)
        file_path == <<voice_id, ExtOf(content_type)>>
    IN /\ Idle
       /\ samples' = WriteFile(samples, file_path, content)
       /\ op' = [handler |-> "upload_voice_sample", name |-> name, content |-> content]
       /\ out' = Returned([ok |-> TRUE, voice_id |-> voice_id, name |-> n, path |-> file_path])
       /\ UNCHANGED << tts_state, config_file, auth, lifecycle >>

\* requests.post to /v1/voices/add: registered, status 400, another non-2xx
\* status, a transport error, a 2xx answer without a voice_id
RegisterOutcomes == {"ok", "400", "500", "Timeout", "malformed"}

\* the document clone_voice writes (lines 585-602)
ClonedDocument(voice_id, name, issued) ==
    LET config == IF config_file # <<>> THEN config_file[1]
                  ELSE [voices |-> <<>>, cloned_voices |-> <<>>]
        entry == [elevenlabs_id |-> issued,
                  name |-> IF name = "" THEN voice_id ELSE name,
                  created_at |-> "t1"]
    IN SetKey(config, "cloned_voices", SetKey(ClonedVoices(config), voice_id, entry))

\* what clone_voice answers: the credential test, then the sample lookup, then
\* the provider call; the HTTPException(400) raised inside the try block is
\* caught by "except Exception" and answered as 500 like every other failure
CloneAnswer(voice_id, name, outcome, issued) ==
    IF ~ELEVENLABS_API_KEY
    THEN HTTPException(500, "ElevenLabs API key not configured")
    ELSE IF FoundExts(voice_id) = <<>>
    THEN HTTPException(404, "Voice sample not found")
    ELSE IF outcome = "ok"
    THEN Returned([ok |-> TRUE, voice_id |-> voice_id, elevenlabs_id |-> issued,
                   name |-> IF name = "" THEN voice_id ELSE name])
    ELSE HTTPException(500, "Voice cloning failed")

\* clone_voice that writes the entry before it looks at the provider's answer
CloneWritesAlways(voice_id, outcome) ==
    ELEVENLABS_API_KEY /\ FoundExts(voice_id) # <<>>

\* clone_voice that writes the entry on every 2xx answer, before it reads
\* the voice_id of the answer
CloneWritesOnAnswer(voice_id, outcome) ==
    ELEVENLABS_API_KEY /\ FoundExts(voice_id) # <<>> /\ outcome \in {"ok", "malformed"}

\* the condition under which clone_voice reaches the write of line 602
CloneWrites(voice_id, outcome) ==
    ELEVENLABS_API_KEY /\ FoundExts(voice_id) # <<>> /\ outcome = "ok"

\* POST /api/clone-voice; the provider issues an id it has not issued before
clone_voice(voice_id, name, outcome, issued) ==
    /\ Idle
    /\ \A v \in DOMAIN Registry :
          "elevenlabs_id" \in DOMAIN Registry[v] => Registry[v].elevenlabs_id # issued
    /\ LET reached == ELEVENLABS_API_KEY /\ FoundExts(voice_id) # <<>>
       IN op' = [handler |-> "clone_voice", voice_id |-> voice_id, name |-> name,
                 outcome |-> IF reached THEN outcome ELSE "none",
                 issued |-> IF reached /\ outcome = "ok" THEN issued ELSE "none",
                 before |-> Before]
    /\ out' = CloneAnswer(voice_id, name, outcome, issued)
    /\ config_file' = IF CloneWrites(voice_id, outcome)
                      THEN <<ClonedDocument(voice_id, name, issued)>>
                      ELSE config_file
    /\ UNCHANGED << tts_state, samples, auth >>

\* requests.delete to /v1/voices/{id}: 2xx, non-2xx, an exception
DeleteOutcomes == {"ok", "non2xx", "exception"}

\* the samples directory after the loop of lines 751-756: the first sample
\* found, in the order of SampleExts, is unlinked and the loop ends
UnlinkFirstFound(voice_id) ==
    IF FoundExts(voice_id) = <<>>
    THEN samples
    ELSE [f \in DOMAIN samples \ {<<voice_id, Head(FoundExts(voice_id))>>} |-> samples[f]]

\* DELETE /api/delete-cloned-voice
delete_cloned_voice(voice_id, outcome) ==
    /\ Idle
    /\ LET known == voice_id \in DOMAIN Registry
           readable == known /\ "elevenlabs_id" \in DOMAIN Registry[voice_id]
       IN /\ op' = [handler |-> "delete_cloned_voice", voice_id |-> voice_id,
                    outcome |-> IF readable /\ ELEVENLABS_API_KEY THEN outcome ELSE "none",
                    before |-> Before]
          /\ IF config_file = <<>>
             THEN /\ out' = HTTPException(404, "No voices found")
                  /\ UNCHANGED << config_file, samples >>
             ELSE IF ~known
             THEN /\ out' = HTTPException(404, "Voice not found")
                  /\ UNCHANGED << config_file, samples >>
             ELSE IF ~readable
             THEN \* KeyError at line 727
                  /\ out' = HTTPException(500, "Internal Server Error")
                  /\ UNCHANGED << config_file, samples >>
             ELSE /\ config_file' = <<SetKey(config_file[1], "cloned_voices",
                                             DelKey(Registry, voice_id))>>
                  /\ samples' = UnlinkFirstFound(voice_id)
                  /\ out' = Returned([ok |-> TRUE, deleted_voice_id |-> voice_id])
    /\ UNCHANGED << tts_state, auth >>

\* a voice of the provider's listing
ProviderVoice(id, name, category) == [voice_id |-> id, name |-> name, category |-> category]
\* what GET /v1/voices can answer: <<"fail">> for a RequestException, else
\* <<"ok", voices>>
Listings ==
    { <<"fail">>,
      <<"ok", <<>>>>,
      <<"ok", <<ProviderVoice("el_1", "Anna", "cloned")>>>>,
      <<"ok", <<ProviderVoice("el_7", "Rachel", "premade"), ProviderVoice("el_2", "Bob", "cloned")>>>>,
      <<"ok", <<ProviderVoice("el_8", "Zoe", "cloned"), ProviderVoice("el_9", "Zoe", "cloned")>>>>,
      <<"ok", <<ProviderVoice("el_1", "Anna", "cloned"), ProviderVoice("el_9", "anna_1", "cloned")>>>>,
      <<"ok", <<ProviderVoice("el_9", "anna_1", "cloned"), ProviderVoice("el_1", "Anna", "cloned")>>>> }

\* d[k] = v for a dict d kept as the sequence of its items: a new key goes to
\* the end, a key already present keeps its place and takes the new value
Put(d, k, v) ==
    IF \E i \in 1..Len(d) : d[i][1] = k
    THEN [i \in 1..Len(d) |-> IF d[i][1] = k THEN <<k, v>> ELSE d[i]]
    ELSE Append(d, <<k, v>>)

\* info.get(key, default)
Get(info, key, default) == IF key \in DOMAIN info THEN info[key] ELSE default

\* the merge loop of lines 650-675
RECURSIVE MergeVoices(_, _, _)
MergeVoices(cloned_from_api, local_cloned, cloned_voices) ==
    IF cloned_from_api = <<>>
    THEN cloned_voices
    ELSE LET el_voice == Head(cloned_from_api)
             el_id == el_voice.voice_id
             el_name == el_voice.name
             matches == {vid \in DOMAIN local_cloned :
                            /\ "elevenlabs_id" \in DOMAIN local_cloned[vid]
                            /\ local_cloned[vid].elevenlabs_id = el_id}
             merged ==
                 IF matches # {}
                 THEN LET voice_id == CHOOSE vid \in matches : TRUE
                          info == local_cloned[voice_id]
                      IN Put(cloned_voices, voice_id,
                             [elevenlabs_id |-> el_id, name |-> Get(info, "name", el_name),
                              created_at |-> Get(info, "created_at", "")])
                 ELSE Put(cloned_voices, el_name,
                          [elevenlabs_id |-> el_id, name |-> el_name, created_at |-> ""])
         IN MergeVoices(Tail(cloned_from_api), local_cloned, merged)

\* the list built for the frontend from the items of a dict (lines 678-686)
FormatVoices(items) ==
    [i \in 1..Len(items) |->
        [id |-> items[i][1], name |-> items[i][2].name,
         elevenlabs_id |-> items[i][2].elevenlabs_id,
         created_at |-> Get(items[i][2], "created_at", "")]]

\* the items of the local registry
RegistryItems ==
    LET ids == SelectSeq(VoiceIdOrder, LAMBDA v : v \in DOMAIN Registry)
    IN [i \in 1..Len(ids) |-> <<ids[i], Registry[ids[i]]>>]

\* the fallback of lines 691-711: the local registry; an entry without a name
\* or a provider id raises KeyError inside the except block
ListFallback ==
    IF \E v \in DOMAIN Registry : {"name", "elevenlabs_id"} \ DOMAIN Registry[v] # {}
    THEN HTTPException(500, "Internal Server Error")
    ELSE Returned([cloned_voices |-> FormatVoices(RegistryItems)])

\* GET /api/cloned-voices; without a key the provider answers 401, which
\* raise_for_status turns into a RequestException
get_cloned_voices(listing) ==
    /\ Idle
    /\ ~ELEVENLABS_API_KEY => listing[1] = "fail"
    /\ op' = [handler |-> "get_cloned_voices", listing |-> listing, before |-> Before]
    /\ out' = IF listing[1] = "fail"
              THEN ListFallback
              ELSE LET cloned_from_api == SelectSeq(listing[2], LAMBDA v : v.category = "cloned")
                   IN Returned([cloned_voices |->
                                   FormatVoices(MergeVoices(cloned_from_api, Registry, <<>>))])
    /\ UNCHANGED << tts_state, config_file, samples, auth, lifecycle >>

\* the state after construction, without the settings that only tts reads
InitVoice ==
    /\ Init
    /\ ~OPENAI_API_KEY
    /\ ~blob_service
    /\ BACKEND_URL = ""
    /\ ~azure_container

NextVoice ==
    \/ \E p \in ConfigPayloads : save_config(p) /\ UNCHANGED lifecycle
    \/ \E n \in UploadNames, t \in ContentTypes, c \in SampleContents : upload_voice_sample(n, t, c)
    \/ \E v \in VoiceIds, n \in CloneNames, o \in RegisterOutcomes, i \in ProviderIds :
          clone_voice(v, n, o, i) /\ UNCHANGED lifecycle
    \/ \E v \in VoiceIds, o \in DeleteOutcomes : delete_cloned_voice(v, o) /\ UNCHANGED lifecycle
    \/ \E l \in Listings : get_cloned_voices(l)

VoiceSpec == InitVoice /\ [][NextVoice]_vars

\* ------------------------------------------------------------------ registry history
\* the condition under which delete_cloned_voice reaches line 760
DeleteCompletes(voice_id) ==
    /\ voice_id \in DOMAIN Registry
    /\ "elevenlabs_id" \in DOMAIN Registry[voice_id]

\* clone_voice, remembering that the clone of this id completed
CloneTracked(voice_id, name, outcome, issued) ==
    /\ clone_voice(voice_id, name, outcome, issued)
    /\ lifecycle' = IF CloneWrites(voice_id, outcome)
                    THEN SetKey(lifecycle, voice_id, "cloned")
                    ELSE lifecycle

\* delete_cloned_voice, remembering that the delete of this id completed
\* after its clone
DeleteTracked(voice_id, outcome) ==
    /\ delete_cloned_voice(voice_id, outcome)
    /\ lifecycle' = IF DeleteCompletes(voice_id) /\ voice_id \in DOMAIN lifecycle
                    THEN SetKey(lifecycle, voice_id, "deleted")
                    ELSE lifecycle

\* save_config, remembering which ids of the history the payload registers
ReplaceTracked(payload) ==
    /\ save_config(payload)
    /\ lifecycle' = [v \in DOMAIN lifecycle |->
                        IF v \in DOMAIN ClonedVoices(payload) THEN "replaced" ELSE lifecycle[v]]

\* the writers of the registry document; each handler runs from its first
\* line to its last without an await, so the interleavings of concurrent
\* calls on the one event loop are the orders in which they run
NextRegistry ==
    \/ \E p \in ConfigPayloads : save_config(p) /\ UNCHANGED lifecycle
    \/ \E n \in UploadNames, t \in ContentTypes : upload_voice_sample(n, t, "rec_a")
    \/ \E v \in VoiceIds, n \in CloneNames, o \in RegisterOutcomes, i \in ProviderIds :
          CloneTracked(v, n, o, i)
    \/ \E v \in VoiceIds, o \in DeleteOutcomes : DeleteTracked(v, o)

RegistrySpec == InitVoice /\ [][NextRegistry]_vars

\* ------------------------------------------------------------------ registry and tts
\* tts next to the writers of the registry document, in a deployment with
\* the cloning provider as its only remote service (InitVoice): the primary
\* provider is skipped and delivery is local, the steps of the primary call
\* and of the remote delivery are never enabled. A voice selector of a
\* request may be the id of an uploaded sample.
NextLifecycle ==
    \/ \E p \in ConfigPayloads : ReplaceTracked(p)
    \/ \E t \in ContentTypes : upload_voice_sample("anna", t, "rec_a")
    \/ \E o \in RegisterOutcomes, i \in ProviderIds : CloneTracked("anna_1", "", o, i)
    \/ \E o \in DeleteOutcomes : DeleteTracked("anna_1", o)
    \/ \E t \in Texts, v \in VoiceSelectors, f \in Formats : TtsReceiveNext(t, v, f)
    \/ TtsClassify
    \/ \E o \in CloneOutcomes : TtsCloneCall(o)
    \/ TtsPrimarySkip
    \/ \E o \in OfflineOutcomes : TtsOffline(o)
    \/ TtsDeliverLocal

LifecycleSpec == InitVoice /\ [][NextLifecycle]_vars

\* ------------------------------------------------------------------ translate
\* a text is the sequence of its characters
Chars == {"a", "b"}
TranslateTexts == UNION {[1..n -> Chars] : n \in 0..MaxLen}
Targets == {"en", "de", "ja"}
\* the client of openai>=1.0: answers, raises, or is absent from the module
NewClientOutcomes == {"ok", "raise", "absent"}
\* the module-level ChatCompletion API
LegacyOutcomes == {"ok", "raise"}
\* what the provider answers
ProviderTranslation == <<"t">>

\* text[::-1] returning the text itself
ReverseNot(text) == text

\* text[::-1]
Reverse(text) == [i \in 1..Len(text) |-> text[Len(text) + 1 - i]]

\* POST /api/translate
translate(text, target, new_client, legacy) ==
    LET call == IF text = <<>> \/ ~OPENAI_API_KEY THEN "none"
                ELSE IF new_client = "ok" THEN "ok"
                ELSE legacy
    IN /\ Idle
       /\ op' = [handler |-> "translate", text |-> text, target |-> target, call |-> call]
       /\ out' = IF text = <<>>
                 THEN HTTPException(400, "text is required")
                 ELSE IF call = "ok"
                 THEN Returned([translated |-> ProviderTranslation, target |-> target,
                                mock |-> FALSE])
                 ELSE IF call = "raise"
                 THEN Returned([translated |-> Reverse(text), target |-> target, mock |-> TRUE,
                                error |-> "provider error"])
                 ELSE Returned([translated |-> Reverse(text), target |-> target, mock |-> TRUE])
       /\ UNCHANGED << tts_state, config_file, samples, auth, lifecycle >>

\* the state after construction, without the settings translate does not read
InitTranslate ==
    /\ Init
    /\ ~ELEVENLABS_API_KEY
    /\ ~blob_service
    /\ BACKEND_URL = ""
    /\ ~azure_container

NextTranslate ==
    \E x \in TranslateTexts, t \in Targets, n \in NewClientOutcomes, l \in LegacyOutcomes :
       translate(x, t, n, l)

TranslateSpec == InitTranslate /\ [][NextTranslate]_vars

\* ------------------------------------------------------------------ authentication
\* the values secrets.token_urlsafe returns, in the order it returns them
TokenNames == <<"tok_1", "tok_2", "tok_3", "tok_4">>
\* the tokens a client may present: those and one that is never issued_tokens
TokenValues == {TokenNames[i] : i \in 1..MaxLogins} \cup {"forged"}
MasterPasswords == {"", "secret"}
Passwords == {"secret", "wrong"}
\* an Authorization header is the sequence of its parts; <<>> is no header
Authorizations ==
    {<<>>, <<"Bearer ">>}
    \cup {<<"Bearer ", t>> : t \in TokenValues}
    \cup {<<"Bearer ", "Bearer ", t>> : t \in TokenValues}
    \cup {<<"Token ", t>> : t \in TokenValues}

\* authorization.replace("Bearer ", ""): every occurrence goes
BearerToken(authorization) == SelectSeq(authorization, LAMBDA part : part # "Bearer ")
\* token in VALID_TOKENS; an empty rest is not a token
InValidTokens(token) == Len(token) = 1 /\ token[1] \in VALID_TOKENS

\* verify_auth that accepts every Bearer header
VerifyAuthNoTokenTest(authorization) ==
    IF MASTER_PASSWORD = "" THEN <<>>
    ELSE IF authorization = <<>> THEN HTTPException(401, "Authentication required")
    ELSE IF Head(authorization) # "Bearer " THEN HTTPException(401, "Invalid authorization header")
    ELSE <<>>

\* verify_auth: <<>> when the request may proceed, else the 401 raised
VerifyAuth(authorization) ==
    IF MASTER_PASSWORD = "" THEN <<>>
    ELSE IF authorization = <<>> THEN HTTPException(401, "Authentication required")
    ELSE IF Head(authorization) # "Bearer " THEN HTTPException(401, "Invalid authorization header")
    ELSE IF ~InValidTokens(BearerToken(authorization))
    THEN HTTPException(401, "Invalid or expired token")
    ELSE <<>>

\* POST /api/auth/login
login(password) ==
    /\ Idle
    /\ op' = [handler |-> "login", password |-> password, before |-> VALID_TOKENS]
    /\ IF MASTER_PASSWORD = ""
       THEN /\ out' = HTTPException(500, "Authentication not configured")
            /\ UNCHANGED << VALID_TOKENS, next_token, issued_tokens >>
       ELSE IF password # MASTER_PASSWORD
       THEN /\ out' = HTTPException(401, "Invalid password")
            /\ UNCHANGED << VALID_TOKENS, next_token, issued_tokens >>
       ELSE /\ next_token <= MaxLogins
            /\ LET token == TokenNames[next_token]
               IN /\ VALID_TOKENS' = VALID_TOKENS \cup {token}
                  /\ issued_tokens' = issued_tokens \cup {token}
                  /\ out' = Returned([token |-> token, message |-> "Login successful"])
            /\ next_token' = next_token + 1
    /\ UNCHANGED << tts_state, config_file, samples, MASTER_PASSWORD, logged_out, lifecycle >>

\* logout that ends every session when it is given a Bearer header
logoutEverySession(authorization) ==
    /\ Idle
    /\ op' = [handler |-> "logout", authorization |-> authorization, before |-> VALID_TOKENS]
    /\ IF authorization # <<>> /\ Head(authorization) = "Bearer "
       THEN /\ VALID_TOKENS' = {}
            /\ logged_out' = logged_out \cup VALID_TOKENS
       ELSE UNCHANGED << VALID_TOKENS, logged_out >>
    /\ out' = Returned([message |-> "Logged out successfully"])
    /\ UNCHANGED << tts_state, config_file, samples, MASTER_PASSWORD, next_token, issued_tokens,
                    lifecycle >>

\* POST /api/auth/logout
logout(authorization) ==
    /\ Idle
    /\ op' = [handler |-> "logout", authorization |-> authorization, before |-> VALID_TOKENS]
    /\ IF authorization # <<>> /\ Head(authorization) = "Bearer "
       THEN LET token == BearerToken(authorization)
                carried == IF Len(token) = 1 THEN {token[1]} ELSE {}
            IN /\ VALID_TOKENS' = VALID_TOKENS \ carried
               /\ logged_out' = logged_out \cup (carried \cap issued_tokens)
       ELSE UNCHANGED << VALID_TOKENS, logged_out >>
    /\ out' = Returned([message |-> "Logged out successfully"])
    /\ UNCHANGED << tts_state, config_file, samples, MASTER_PASSWORD, next_token, issued_tokens,
                    lifecycle >>

\* GET /api/config behind the verify_auth dependency
get_config(authorization) ==
    /\ Idle
    /\ op' = [handler |-> "get_config", authorization |-> authorization]
    /\ out' = IF VerifyAuth(authorization) # <<>>
              THEN VerifyAuth(authorization)
              ELSE IF config_file = <<>>
              THEN Returned([voices |-> <<"default", "female_1", "male_1">>, settings |-> <<>>])
              ELSE Returned(config_file[1])
    /\ UNCHANGED << tts_state, config_file, samples, auth, lifecycle >>

\* the state after construction, with or without a master password
InitAuth ==
    /\ ELEVENLABS_API_KEY = FALSE
    /\ OPENAI_API_KEY = FALSE
    /\ blob_service = FALSE
    /\ BACKEND_URL = ""
    /\ storage = EmptyFiles
    /\ config_file = <<>>
    /\ azure_blobs = EmptyFiles
    /\ azure_container = FALSE
    /\ next_uuid = 1
    /\ nreq = 0
    /\ pc = "idle"
    /\ req = NoRequest
    /\ audio_filename = NoName
    /\ elevenlabs_id = ""
    /\ openai_error = <<>>
    /\ produced_by = ""
    /\ resp = NoResponse
    /\ trace = <<>>
    /\ written = {}
    /\ prev = <<>>
    /\ delivery = NoDelivery
    /\ assets = EmptyFiles
    /\ op = NoCall
    /\ out = NoResponse
    /\ samples = EmptyFiles
    /\ MASTER_PASSWORD \in MasterPasswords
    /\ VALID_TOKENS = {}
    /\ next_token = 1
    /\ issued_tokens = {}
    /\ logged_out = {}
    /\ lifecycle = <<>>

NextAuth ==
    \/ \E p \in Passwords : login(p)
    \/ \E a \in Authorizations : logout(a)
    \/ \E a \in Authorizations : get_config(a)

AuthSpec == InitAuth /\ [][NextAuth]_vars

\* ------------------------------------------------------------------ the routes and the gate
\* the state after construction of a deployment with or without a master
\* password, whose container may hold a blob of an earlier deployment
InitGate ==
    /\ ELEVENLABS_API_KEY = FALSE
    /\ OPENAI_API_KEY = FALSE
    /\ blob_service \in BOOLEAN
    /\ BACKEND_URL = ""
    /\ storage = EmptyFiles
    /\ config_file = <<>>
    /\ azure_container = blob_service
    /\ azure_blobs = IF azure_container THEN WriteFile(EmptyFiles, OldName, OldBytes) ELSE EmptyFiles
    /\ next_uuid = 1
    /\ nreq = 0
    /\ pc = "idle"
    /\ req = NoRequest
    /\ audio_filename = NoName
    /\ elevenlabs_id = ""
    /\ openai_error = <<>>
    /\ produced_by = ""
    /\ resp = NoResponse
    /\ trace = <<>>
    /\ written = {}
    /\ prev = <<>>
    /\ delivery = NoDelivery
    /\ assets = EmptyFiles
    /\ op = NoCall
    /\ out = NoResponse
    /\ samples = EmptyFiles
    /\ MASTER_PASSWORD \in MasterPasswords
    /\ VALID_TOKENS = {}
    /\ next_token = 1
    /\ issued_tokens = {}
    /\ logged_out = {}
    /\ lifecycle = <<>>

\* the routes registered with and without dependencies=[Depends(verify_auth)]:
\* get_config has the dependency, /api/voice-sample and /api/audio/{name} have
\* none and run whatever header the request carries
NextGate ==
    \/ \E p \in Passwords : login(p)
    \/ \E a \in Authorizations : logout(a)
    \/ \E a \in Authorizations : get_config(a)
    \/ \E n \in UploadNames, t \in ContentTypes : upload_voice_sample(n, t, "rec_a")
    \/ \E n \in RequestedNames, c \in CheckOutcomes, d \in DownloadOutcomes : audio_proxy(n, c, d)

GateSpec == InitGate /\ [][NextGate]_vars

\* ------------------------------------------------------------------ claims
Done == pc = "done"
Accepted == req.text # ""
HasEvent(stage, result) == \E i \in 1..Len(trace) : trace[i].stage = stage /\ trace[i].result = result
\* the file name a url of this service ends with
UrlName(url) == url[3]

\* C1: every tts request with non-empty text returns a normal response
\* carrying a url, and the file the url names exists in storage at that moment.
C1_NeverRaisesAssetExists ==
    (Done /\ Accepted) =>
        /\ resp.status = 200
        /\ "url" \in DOMAIN resp.body
        /\ UrlName(resp.body.url) \in DOMAIN storage

\* C2: a tts request that returns has persisted exactly one artifact, one
\* audio file or one placeholder text file, never none and never both.
C2_ExactlyOneArtifact ==
    (Done /\ Accepted /\ resp.status = 200) => Cardinality(written) = 1

StageRank(stage) ==
    CASE stage = "clone" -> 1
      [] stage = "primary" -> 2
      [] stage = "offline" -> 3
      [] stage = "placeholder" -> 4

\* C3: the stages of one request run in the order clone, primary, offline,
\* placeholder, each at most once; a stage runs only after every earlier stage
\* was skipped or failed, and nothing runs after the first success.
C3_StageOrder ==
    /\ \A i, j \in 1..Len(trace) : i < j => StageRank(trace[i].stage) < StageRank(trace[j].stage)
    /\ \A i \in 1..Len(trace) : i < Len(trace) => trace[i].result \in {"skipped", "failed"}
    /\ \A j \in 1..Len(trace) :
          /\ trace[j].stage = "offline" => j > 1 /\ trace[j-1].stage = "primary"
          /\ trace[j].stage = "placeholder" =>
                j > 1 /\ trace[j-1].stage = "offline" /\ trace[j-1].result = "failed"
    /\ (\E i \in 1..Len(trace) : trace[i].result = "ok") => pc \in {"deliver", "done"}
    /\ pc = "clone" => trace = <<>>
    /\ pc = "primary" => \A i \in 1..Len(trace) : trace[i].stage = "clone"
    /\ pc = "offline" => Len(trace) > 0 /\ trace[Len(trace)].stage = "primary"

C3_Witness ==
    /\ Done
    /\ Len(trace) = 3
    /\ trace[1].stage = "clone" /\ trace[1].result = "failed"
    /\ trace[2].stage = "primary" /\ trace[2].result = "failed"
    /\ trace[3].stage = "offline" /\ trace[3].result = "ok"

\* the diagnostics a response body carries, in the order openai_error, error
DiagnosticTrail(body) ==
    (IF "openai_error" \in DOMAIN body THEN <<body.openai_error>> ELSE <<>>) \o
    (IF "error" \in DOMAIN body THEN <<body.error>> ELSE <<>>)
IsCloneDiag(d) == d[1] \in {"ElevenLabs: ", "ElevenLabs API key not configured"}
IsUploadDiag(d) == d = <<"upload failed">>
IsOfflineDiag(d) == Len(d) = 1 /\ d[1] \in OfflineOutcomes
\* a diagnostic that none of the other stages wrote
IsPrimaryDiag(d) == ~IsCloneDiag(d) /\ ~IsUploadDiag(d) /\ ~IsOfflineDiag(d)

CredentialDiag == <<"ElevenLabs API key not configured">>

\* C4: cloned voice, cloning call failed, primary call failed, offline
\* fallback succeeded: the response references the offline audio and its
\* diagnostic trail has exactly two entries, one for the cloning failure and
\* one for the primary failure.
C4_TrailOfTwo ==
    (Done /\ HasEvent("clone", "failed") /\ HasEvent("primary", "failed") /\ HasEvent("offline", "ok")) =>
        /\ resp.status = 200
        /\ UrlName(resp.body.url) = audio_filename
        /\ storage[audio_filename] = <<"gtts", "en", req.text>>
        /\ LET t == DiagnosticTrail(resp.body) IN
              /\ Len(t) = 2
              /\ \E i \in 1..Len(t) : IsCloneDiag(t[i])
              /\ \E i \in 1..Len(t) : IsPrimaryDiag(t[i])

\* the voice of the request in flight has a registry entry with a provider id
InRegistry ==
    /\ config_file # <<>>
    /\ req.voice \in DOMAIN ClonedVoices(config_file[1])
    /\ "elevenlabs_id" \in DOMAIN ClonedVoices(config_file[1])[req.voice]

C6_EmptyTextRejected ==
    /\ []((req.text = "" /\ pc # "idle") =>
            /\ Done
            /\ resp = HTTPException(400, "text is required")
            /\ trace = <<>>
            /\ written = {})
    /\ [][(req'.text = "" /\ nreq' # nreq) =>
            /\ storage' = storage
            /\ azure_blobs' = azure_blobs
            /\ azure_container' = azure_container
            /\ next_uuid' = next_uuid]_vars

C6_Witness ==
    /\ Done
    /\ req.text = ""
    /\ resp.status = 400
    /\ DOMAIN storage # {}
    /\ DOMAIN azure_blobs # {}

\* C7: when the offline fallback fails after the cloning and primary stages
\* failed or were skipped, the request still answers 200 with the url of a
\* persisted placeholder, mock = true and an error field.
C7_PlaceholderIsSuccess ==
    (Done /\ HasEvent("offline", "failed")) =>
        /\ ~HasEvent("clone", "ok") /\ ~HasEvent("primary", "ok")
        /\ resp.status = 200
        /\ resp.body.mock = TRUE
        /\ "error" \in DOMAIN resp.body
        /\ resp.body.url[2] = "/storage/"
        /\ UrlName(resp.body.url)[3] = ".txt"
        /\ UrlName(resp.body.url) \in DOMAIN storage
        /\ storage[UrlName(resp.body.url)] = PlaceholderText(req)

C7_Witness ==
    /\ Done
    /\ HasEvent("clone", "failed") /\ HasEvent("primary", "failed") /\ HasEvent("offline", "failed")
    /\ resp.status = 200

\* C8: whenever the primary provider is attempted and fails, the pipeline
\* goes on to the offline fallback and the final response carries a
\* diagnostic for the primary failure.
C8_PrimaryFailureRecorded ==
    (Done /\ HasEvent("primary", "failed")) =>
        /\ \E i \in 1..Len(trace) : trace[i].stage = "offline"
        /\ resp.status = 200
        /\ \E i \in 1..Len(DiagnosticTrail(resp.body)) : IsPrimaryDiag(DiagnosticTrail(resp.body)[i])

\* C10: blob service configured and upload succeeded: the url of the response
\* is <BACKEND_URL>/api/audio/<filename>, never the raw blob URL, which is
\* carried by blob_url alone.
C10_ProxiedUrl ==
    (Done /\ resp.status = 200 /\ audio_filename \in DOMAIN azure_blobs /\ ~resp.body.mock) =>
        /\ resp.body.url = <<BACKEND_URL, "/api/audio/", audio_filename>>
        /\ resp.body.url # BlobUrl(audio_filename)
        /\ resp.body.blob_url = BlobUrl(audio_filename)
        /\ \A k \in DOMAIN resp.body \cap {"url", "error", "openai_error"} :
              resp.body[k] # BlobUrl(audio_filename)
        /\ resp.body.storage = "azure"

C10_Witness ==
    /\ Done
    /\ resp.status = 200
    /\ audio_filename \in DOMAIN azure_blobs
    /\ BACKEND_URL # ""
    /\ resp.body.url[2] = "/api/audio/"

FailureKinds == {"credential", "transport", "malformed"}
\* two finished requests that differ only in the kind of failure of one stage
DifferOnlyInKind(a, b, stage) ==
    /\ a.req = b.req
    /\ a.keys \ {"error", "openai_error"} = b.keys \ {"error", "openai_error"}
    /\ Len(a.events) = Len(b.events)
    /\ \E i \in 1..Len(a.events) : a.events[i].stage = stage
    /\ \A i \in 1..Len(a.events) :
          /\ a.events[i].stage = b.events[i].stage
          /\ a.events[i].stage # stage => a.events[i] = b.events[i]
          /\ a.events[i].stage = stage =>
                /\ a.events[i].kind \in FailureKinds
                /\ b.events[i].kind \in FailureKinds
                /\ a.events[i].kind # b.events[i].kind

\* C9: the diagnostics of a response tell a missing credential, a transport
\* failure and a malformed response apart: two requests that differ only in
\* the kind with which one provider failed never carry the same diagnostics.
C9_KindsDistinguished ==
    (Done /\ Accepted /\ resp.status = 200 /\ prev # <<>>) =>
        \A stage \in {"clone", "primary"} :
            DifferOnlyInKind(prev[1], Summary, stage) => prev[1].diag # Summary.diag

\* the request in flight has been through _return_uploaded
Delivered == Done /\ produced_by # ""
LocalUrl(name) == <<BACKEND_URL, "/storage/", name>>

\* C11: delivery falls back to the local url /storage/<filename>: with a blob
\* service whose upload fails the response carries that url and the failure
\* detail; without a blob service it carries that url and no error; the
\* request does not fail in either case.
C11_LocalFallback ==
    Delivered =>
        /\ resp.status = 200
        /\ (blob_service /\ delivery.uploaded = "error") =>
              /\ resp.body.url = LocalUrl(audio_filename)
              /\ "error" \in DOMAIN resp.body
              /\ resp.body.error # <<>>
              /\ audio_filename \in DOMAIN storage
        /\ ~blob_service =>
              /\ resp.body.url = LocalUrl(audio_filename)
              /\ "error" \notin DOMAIN resp.body
              /\ audio_filename \in DOMAIN storage

C11_Witness ==
    /\ Delivered
    /\ blob_service
    /\ delivery = [created |-> "created", uploaded |-> "error"]
    /\ resp.body.url[2] = "/storage/"

\* C12: container creation is idempotent: when create_container finds the
\* container there (or fails otherwise) the request does not fail, the upload
\* is still made, and its outcome alone decides between the proxied url and
\* the local fallback.
C12_ContainerIdempotent ==
    (Delivered /\ blob_service /\ delivery.created \in {"exists", "error"}) =>
        /\ resp.status = 200
        /\ delivery.uploaded = "ok" =>
              /\ resp.body.url[2] = "/api/audio/"
              /\ "error" \notin DOMAIN resp.body
              /\ audio_filename \in DOMAIN azure_blobs
        /\ delivery.uploaded = "error" => resp.body.url[2] = "/storage/"

\* the second delivery into a container that the first one created
C12_Witness ==
    /\ Delivered
    /\ nreq = 2
    /\ delivery = [created |-> "exists", uploaded |-> "ok"]
    /\ Cardinality(DOMAIN azure_blobs) = 2
    /\ resp.body.url[2] = "/api/audio/"

Proxied == op.handler = "audio_proxy"

\* C13: round trip: the audio of every delivered tts request, fetched by its
\* file name through audio_proxy, is the bytes its synthesis stage stored,
\* from the blob store or from local storage, whatever ran in between.
C13_RoundTrip ==
    (Proxied /\ op.name \in DOMAIN assets) =>
        /\ out.status = 200
        /\ out.body.data = assets[op.name]

\* the asset of the first request, fetched from the blob store after the
\* second request was delivered
C13_Witness ==
    /\ Proxied
    /\ nreq = 2 /\ Delivered
    /\ op.name = <<"tts_", 1, ".mp3">>
    /\ op.name \in DOMAIN assets
    /\ out.status = 200 /\ out.body.source = "azure"

\* C14 as stated: 404 only if neither the blob store nor local storage has
\* the file.
C14_NotFoundOnlyIfNeitherHas ==
    (Proxied /\ out.status = 404) =>
        /\ op.name \notin DOMAIN storage
        /\ op.name \notin DOMAIN azure_blobs

\* the remote store could not supply the file: not configured, no such blob,
\* or an error of the existence check or of the download
RemoteGaveNothing ==
    \/ ~blob_service
    \/ op.check = "error"
    \/ op.name \notin DOMAIN azure_blobs
    \/ op.download = "error"

\* C14, amended: audio_proxy serves the blob when the blob service is
\* configured, the existence check finds it and the download succeeds; on a
\* miss or any remote error it serves the local file; it answers 404 only if
\* local storage lacks the file and the remote store supplied nothing, and
\* never while the file exists locally.
C14_ReadPath ==
    Proxied =>
        /\ out.status \in {200, 404}
        /\ ~RemoteGaveNothing =>
              out = Returned([data |-> azure_blobs[op.name], media_type |-> MediaType(op.name),
                              source |-> "azure"])
        /\ (RemoteGaveNothing /\ op.name \in DOMAIN storage) =>
              out = Returned([data |-> storage[op.name], media_type |-> MediaType(op.name),
                              source |-> "local"])
        /\ out.status = 404 <=> (RemoteGaveNothing /\ op.name \notin DOMAIN storage)

\* a remote error answered from local storage
C14_Witness ==
    /\ Proxied
    /\ blob_service
    /\ op.name \in DOMAIN azure_blobs
    /\ op.download = "error"
    /\ out.status = 200 /\ out.body.source = "local"

Listed == op.handler = "get_cloned_voices"
ListedIds == {out.body.cloned_voices[j].elevenlabs_id : j \in 1..Len(out.body.cloned_voices)}

\* C15: when the provider listing succeeds, every cloned voice of the listing
\* whose provider id matches no local registry entry has an entry with that
\* provider id in the result, also when display names collide with each
\* other or with a local voice id.
C15_UnmatchedListed ==
    (Listed /\ op.listing[1] = "ok") =>
        /\ out.status = 200
        /\ \A i \in 1..Len(op.listing[2]) :
              LET v == op.listing[2][i]
              IN (/\ v.category = "cloned"
                  /\ \A l \in DOMAIN Registry : Get(Registry[l], "elevenlabs_id", "") # v.voice_id)
                 => v.voice_id \in ListedIds

\* C16: when the provider listing fails, the answer is a success whose list
\* is exactly the local registry, one item per local voice id, and the empty
\* list without a config file.
C16_ListingFailureLocal ==
    (Listed /\ op.listing[1] = "fail") =>
        /\ out.status = 200
        /\ Len(out.body.cloned_voices) = Cardinality(DOMAIN Registry)
        /\ \A v \in DOMAIN Registry :
              \E j \in 1..Len(out.body.cloned_voices) :
                 LET item == out.body.cloned_voices[j]
                 IN /\ item.id = v
                    /\ item.name = Registry[v].name
                    /\ item.elevenlabs_id = Registry[v].elevenlabs_id
        /\ config_file = <<>> => out.body.cloned_voices = <<>>

Translated == op.handler = "translate"

\* C17: for a non-empty text, a translation request with no credential
\* configured is answered with the text reversed, the requested target and
\* mock = true; a configured provider whose call fails gives the same answer
\* with an error field added.
C17_MockTranslation ==
    (Translated /\ op.text # <<>> /\ op.call # "ok") =>
        /\ out.status = 200
        /\ Len(out.body.translated) = Len(op.text)
        /\ \A i \in 1..Len(op.text) : out.body.translated[i] = op.text[Len(op.text) + 1 - i]
        /\ out.body.target = op.target
        /\ out.body.mock = TRUE
        /\ "error" \in DOMAIN out.body <=> op.call = "raise"
        /\ op.call = "raise" <=> OPENAI_API_KEY

\* a failed provider call answered with the reversed text and an error
C17_Witness ==
    /\ Translated
    /\ OPENAI_API_KEY
    /\ op.call = "raise"
    /\ op.text = <<"a", "b", "b">>
    /\ out.body.translated = <<"b", "b", "a">>
    /\ "error" \in DOMAIN out.body

\* the header is a Bearer header whose token was issued and not logged out
PresentsLiveToken(authorization) ==
    /\ authorization # <<>>
    /\ Head(authorization) = "Bearer "
    /\ Len(BearerToken(authorization)) = 1
    /\ BearerToken(authorization)[1] \in issued_tokens \ logged_out

\* C18: with authentication enabled, verify_auth accepts a token if and only
\* if a successful login issued it and no logout has carried it since; a
\* failed login adds no token; only logout removes a token.
C18_TokenValidity ==
    /\ [](MASTER_PASSWORD # "" =>
            /\ \A t \in TokenValues :
                  VerifyAuth(<<"Bearer ", t>>) = <<>> <=> (t \in issued_tokens /\ t \notin logged_out)
            /\ op.handler = "get_config" =>
                  (out.status = 200 <=> PresentsLiveToken(op.authorization))
            /\ (op.handler = "login" /\ out.status # 200) => VALID_TOKENS = op.before
            /\ (op.handler = "login" /\ out.status = 200) =>
                  (op.password = MASTER_PASSWORD /\ out.body.token \in VALID_TOKENS \ op.before))
    /\ [][(MASTER_PASSWORD # "" /\ ~(VALID_TOKENS \subseteq VALID_TOKENS')) =>
             op'.handler = "logout"]_vars

\* a logged-out token is refused while the other session stays valid
C18_Witness ==
    /\ MASTER_PASSWORD # ""
    /\ op.handler = "get_config"
    /\ op.authorization = <<"Bearer ", "tok_1">>
    /\ out.status = 401
    /\ "tok_1" \in logged_out
    /\ VALID_TOKENS = {"tok_2"}

Cloned == op.handler = "clone_voice"
\* the sample files of a voice id in a samples directory
SamplesOf(dir, voice_id) == {f \in DOMAIN dir : f[1] = voice_id}

\* C19 as stated: clone_voice for an id with no stored sample is answered
\* not-found and writes nothing.
C19_NoSampleNotFound ==
    (Cloned /\ SamplesOf(op.before.samples, op.voice_id) = {}) =>
        /\ out.status = 404
        /\ config_file = op.before.config

\* C19, amended: clone_voice changes the registry document only when a
\* sample with that id is stored and the provider registration succeeded, and
\* the entry then maps the local id to the provider-issued id; for an id with
\* no stored sample it writes nothing and answers not-found when the cloning
\* credential is configured, 500 when it is not.
C19_CloneStep ==
    Cloned =>
        LET had == SamplesOf(op.before.samples, op.voice_id) # {}
        IN /\ config_file # op.before.config =>
                 (had /\ SamplesOf(samples, op.voice_id) # {} /\ op.outcome = "ok")
           /\ (had /\ op.outcome = "ok") =>
                 /\ out.status = 200
                 /\ op.voice_id \in DOMAIN Registry
                 /\ Registry[op.voice_id].elevenlabs_id = op.issued
                 /\ out.body.elevenlabs_id = op.issued
           /\ ~had =>
                 /\ config_file = op.before.config
                 /\ out.status = IF ELEVENLABS_API_KEY THEN 404 ELSE 500

\* a second clone added to a registry that already had an entry
C19_Witness ==
    /\ Cloned
    /\ out.status = 200
    /\ op.before.config # <<>>
    /\ Cardinality(DOMAIN Registry) = 2
    /\ Registry[op.voice_id].elevenlabs_id = op.issued
    /\ op.voice_id \notin DOMAIN ClonedVoices(op.before.config[1])

Deleted == op.handler = "delete_cloned_voice"
RegistryBefore == IF op.before.config = <<>> THEN <<>> ELSE ClonedVoices(op.before.config[1])

\* C20: delete_cloned_voice for an id present in the registry succeeds
\* whatever the provider-side deletion did: the entry is gone, the sample of
\* that id is gone, every other entry is unchanged.
C20_DeleteSucceeds ==
    (Deleted /\ op.voice_id \in DOMAIN RegistryBefore) =>
        /\ out.status = 200
        /\ op.voice_id \notin DOMAIN Registry
        /\ SamplesOf(samples, op.voice_id) = {}
        /\ \A v \in DOMAIN RegistryBefore \ {op.voice_id} :
              v \in DOMAIN Registry /\ Registry[v] = RegistryBefore[v]

\* C21: after any interleaving of clone_voice, delete_cloned_voice and
\* save_config calls, the registry holds every entry whose clone completed
\* and was not deleted afterwards, and no entry whose delete completed after
\* its clone.
C21_NoLostUpdate ==
    \A v \in DOMAIN lifecycle :
        /\ lifecycle[v] = "cloned" => v \in DOMAIN Registry
        /\ lifecycle[v] = "deleted" => v \notin DOMAIN Registry

\* the tts request in flight is inside an outbound provider call
WaitingOnProvider ==
    \/ pc = "clone"
    \/ pc = "primary" /\ OPENAI_API_KEY
    \/ pc = "offline"

\* C22: while a request waits on an outbound provider call, another request
\* can still be served to completion.
C22_OthersProgress ==
    WaitingOnProvider =>
        ENABLED (\E n \in RequestedNames, c \in CheckOutcomes, d \in DownloadOutcomes :
                    audio_proxy(n, c, d))

\* C23: no tts request writes to a storage file name or a blob name that an
\* earlier request (or an earlier stage) wrote to: every write creates a file
\* that did not exist, and no stored file or blob ever changes.
C23_NoSharedName ==
    [][/\ (written' \ written) \cap DOMAIN storage = {}
       /\ \A n \in DOMAIN storage : n \in DOMAIN storage' /\ storage'[n] = storage[n]
       /\ \A n \in DOMAIN azure_blobs :
             n \in DOMAIN azure_blobs' /\ azure_blobs'[n] = azure_blobs[n]
       /\ \A n \in DOMAIN azure_blobs' \ DOMAIN azure_blobs : n = audio_filename]_vars

\* two requests for the same voice and text, each with its own file and blob
C23_Witness ==
    /\ nreq = 2
    /\ Delivered
    /\ prev # <<>>
    /\ prev[1].req = req
    /\ Cardinality(DOMAIN storage) = 2
    /\ Cardinality(DOMAIN azure_blobs) = 2
    /\ storage[<<"tts_", 1, ".mp3">>] = storage[<<"tts_", 2, ".mp3">>]

\* C24: every upload gets a voice id no stored sample has, and no upload
\* overwrites a stored sample: a sample file that exists keeps its content,
\* and a new sample file carries an id that no existing sample file carries.
C24_UniqueSampleIds ==
    [][\A f \in DOMAIN samples' :
          /\ f \in DOMAIN samples => samples'[f] = samples[f]
          /\ f \notin DOMAIN samples => SamplesOf(samples, f[1]) = {}]_vars

\* C25: a clone registration the provider rejects with status 400 is answered
\* to the caller with status 400.
C25_RejectionAnswered400 == (Cloned /\ op.outcome = "400") => out.status = 400

\* what a placeholder artifact holds beyond the voice, the format and the
\* text of the request: the f-string of the write has no further field
ArtifactDiagnostics(content) == SubSeq(content, 7, Len(content))

\* C26: the placeholder artifact records the request's voice and format and
\* every diagnostic of the request, the ones its response carries among them.
C26_PlaceholderRecordsTrail ==
    (Done /\ HasEvent("offline", "failed")) =>
        LET content == storage[UrlName(resp.body.url)]
        IN /\ content[2] = req.voice
           /\ content[4] = req.format
           /\ Len(ArtifactDiagnostics(content)) >= Len(DiagnosticTrail(resp.body))

\* the last request carried no token that was valid when it arrived; a
\* handler that takes no Authorization header answers a request without one
\* as it answers any other
NoValidToken ==
    "authorization" \notin DOMAIN op \/ ~InValidTokens(BearerToken(op.authorization))

\* C27: with a master password set, a request without a valid token to any
\* operation other than login, logout and health is answered 401.
C27_GateRejects ==
    (/\ MASTER_PASSWORD # ""
     /\ op.handler \in {"get_config", "upload_voice_sample", "audio_proxy"}
     /\ NoValidToken) => out.status = 401

\* C28: a clone_voice call that does not succeed leaves the registry document
\* and the stored sample files as they were before the call.
C28_FailedCloneWritesNothing ==
    (Cloned /\ out.status # 200) =>
        /\ config_file = op.before.config
        /\ samples = op.before.samples

C28_Witness ==
    /\ Cloned /\ out.status = 500 /\ op.outcome = "malformed"
    /\ op.before.config # <<>> /\ op.voice_id \in DOMAIN RegistryBefore
    /\ SamplesOf(op.before.samples, op.voice_id) # {}

\* the request called the cloning provider, or is about to
CloneCalled == pc = "clone" \/ HasEvent("clone", "ok") \/ HasEvent("clone", "failed")
\* the request was classified as one for a standard voice
Standard == ~CloneCalled /\ ~HasEvent("clone", "skipped") /\ elevenlabs_id = ""

\* C29: a tts request for a voice id whose delete completed, and that neither
\* clone_voice nor a config replacement registered again, is classified as
\* standard and does not call the cloning provider; and a tts request calls
\* the cloning provider only for an id that is in the registry at that time.
\* (op = NoCall: no other handler ran since the request arrived.)
C29_DeletedIsStandard ==
    (op = NoCall /\ nreq > 0 /\ pc # "classify") =>
        /\ (req.voice \in DOMAIN lifecycle /\ lifecycle[req.voice] = "deleted") => Standard
        /\ CloneCalled => req.voice \in DOMAIN Registry

C29_Witness ==
    /\ op = NoCall /\ Done /\ resp.status = 200
    /\ req.voice \in DOMAIN lifecycle /\ lifecycle[req.voice] = "deleted"
    /\ Standard /\ HasEvent("primary", "skipped")
    /\ prev # <<>> /\ prev[1].req.voice = req.voice
    /\ \E i \in DOMAIN prev[1].events :
          prev[1].events[i].stage = "clone" /\ prev[1].events[i].result = "ok"

\* the token a header presents: what follows "Bearer "; none without a
\* header, with another scheme, or with nothing after the scheme
Presented(authorization) ==
    IF authorization # <<>> /\ Head(authorization) = "Bearer " /\ Len(BearerToken(authorization)) = 1
    THEN {BearerToken(authorization)[1]}
    ELSE {}

\* C30: logout answers success whatever it is given; the tokens valid after
\* it are those valid before it less the one its Bearer header presents, so
\* every other token stays valid and a missing, malformed or unknown token
\* leaves the set as it was.
C30_LogoutRemovesOnlyPresented ==
    op.handler = "logout" =>
        /\ out.status = 200
        /\ VALID_TOKENS = op.before \ Presented(op.authorization)
        /\ Cardinality(op.before \ VALID_TOKENS) <= 1
        /\ (Presented(op.authorization) \cap op.before = {}) => VALID_TOKENS = op.before

C30_Witness ==
    /\ op.handler = "logout"
    /\ op.authorization = <<"Bearer ", "tok_1">>
    /\ op.before = {"tok_1", "tok_2"}
    /\ VALID_TOKENS = {"tok_2"}
    /\ out.status = 200
====
